---- MODULE Spec2Model ----
(***************************************************************************)
(* Model of the aiProvider slice of the aiInfra store                      *)
(* (src/store/aiInfra/slices/aiProvider/action.ts).                        *)
(*                                                                         *)
(* The slice holds process-wide state, writes through to aiProviderService *)
(* (the remote gateway), invalidates SWR cache keys with mutate() and, on  *)
(* every defined runtime-state resolution, derives enabledChatModelList.   *)
(*                                                                         *)
(* Optional JavaScript values (T | undefined) are sequences of length at   *)
(* most one: None is undefined, Some(x) is the defined value x.            *)
(***************************************************************************)
EXTENDS Naturals, Sequences, FiniteSets, Bags, TLC

VARIABLES
    aiProviderLoadingIds,     \* string[]: identifiers marked as loading
    activeAiProvider,         \* string | undefined
    aiProviderDetail,         \* AiProviderDetailItem | undefined
    aiProviderList,           \* AiProviderListItem[]
    initAiProviderList,       \* boolean
    aiProviderRuntimeConfig,  \* runtime config of the last defined snapshot
    enabledAiModels,          \* enabled models of the last defined snapshot
    enabledAiProviders,       \* enabled providers of the last defined snapshot
    enabledChatModelList,     \* the derived tree
    isLoginOnInit,            \* argument of useFetchAiProviderRuntimeState
    isDeprecatedEdition,      \* build flag imported from @/const/version
    calls,                    \* bag of the mutation calls made so far
    rtSnapshot,               \* history: the last defined snapshot resolved
    swr                       \* the SWR cache: per key, its fetches and readers

storeVars == <<aiProviderLoadingIds, activeAiProvider, aiProviderDetail,
               aiProviderList, initAiProviderList>>
runtimeVars == <<aiProviderRuntimeConfig, enabledAiModels, enabledAiProviders,
                 enabledChatModelList, rtSnapshot>>
envVars == <<isLoginOnInit, isDeprecatedEdition, swr>>
vars == <<storeVars, runtimeVars, envVars, calls>>

None == <<>>
Some(x) == <<x>>

----------------------------------------------------------------------------
(* Bounds and input domains                                                *)

MaxProviders == 2   \* longest enabledAiProviders of a snapshot (SpecView)
MaxModels == 3      \* longest enabledAiModels of a snapshot (SpecView)
MaxReaders == 3     \* concurrent readers of the cache (SpecCache)
MaxFetches == 2     \* fetches issued for one key (SpecCache)

SeqsUpTo(S, n) == UNION {[1..k -> S] : k \in 0..n}

\* enabled providers a snapshot can list: name absent, empty or defined
ProviderPool ==
    { [id |-> "p1", name |-> None],
      [id |-> "p1", name |-> Some("OpenAI")],
      [id |-> "p2", name |-> Some("")],
      [id |-> "p2", name |-> Some("Azure")] }

\* enabled models a snapshot can list; "p3" is never an enabled provider
ModelPool ==
    { [id |-> "m1", providerId |-> "p1", type |-> "chat",
       displayName |-> None, abilities |-> None, contextWindowTokens |-> None],
      [id |-> "m1", providerId |-> "p1", type |-> "chat",
       displayName |-> Some("GPT 3.5 Turbo"),
       abilities |-> Some({"functionCall"}), contextWindowTokens |-> Some(16385)],
      [id |-> "m2", providerId |-> "p1", type |-> "chat",
       displayName |-> Some("GPT 4"), abilities |-> Some({"functionCall", "vision"}),
       contextWindowTokens |-> Some(128000)],
      [id |-> "m1", providerId |-> "p2", type |-> "chat",
       displayName |-> Some("GPT 3.5 Turbo"), abilities |-> None,
       contextWindowTokens |-> Some(16385)],
      [id |-> "m2", providerId |-> "p2", type |-> "embedding",
       displayName |-> None, abilities |-> None, contextWindowTokens |-> None],
      [id |-> "m1", providerId |-> "p3", type |-> "chat",
       displayName |-> Some("GPT 4"), abilities |-> None,
       contextWindowTokens |-> None] }

Snapshot(cfg, ps, ms) ==
    [runtimeConfig |-> cfg, enabledAiProviders |-> ps, enabledAiModels |-> ms]

\* every snapshot within the bounds: the inputs of the derivation
ViewSnapshots ==
    { Snapshot("cfgA", ps, ms) :
        ps \in SeqsUpTo(ProviderPool, MaxProviders),
        ms \in SeqsUpTo(ModelPool, MaxModels) }

----------------------------------------------------------------------------
(* Derived view: useFetchAiProviderRuntimeState.onSuccess                  *)

\* lodash uniqBy(models, 'id'): the first occurrence of each id, in order
RECURSIVE uniqBy(_, _)
uniqBy(models, seen) ==
    IF models = <<>> THEN <<>>
    ELSE LET m == Head(models)
         IN IF m.id \in seen
            THEN uniqBy(Tail(models), seen)
            ELSE <<m>> \o uniqBy(Tail(models), seen \cup {m.id})

\* the .map() projection of one enabled model
ProjectModel(model) ==
    [abilities |-> IF model.abilities = None THEN {} ELSE model.abilities[1],
     contextWindowTokens |-> model.contextWindowTokens,
     displayName |-> IF model.displayName = None THEN "" ELSE model.displayName[1],
     id |-> model.id]

\* data.enabledAiModels.filter(...).map(...) followed by uniqBy(models, 'id')
getModelListByType_anyType(data, providerId, type) ==
    LET models == SelectSeq(data.enabledAiModels, LAMBDA m : m.providerId = providerId)
    IN uniqBy([i \in 1..Len(models) |-> ProjectModel(models[i])], {})
getModelListByType(data, providerId, type) ==
    LET models == SelectSeq(data.enabledAiModels,
                            LAMBDA m : m.providerId = providerId /\ m.type = type)
    IN uniqBy([i \in 1..Len(models) |-> ProjectModel(models[i])], {})

\* provider.name || provider.id: undefined and "" are both falsy
NameOrId(provider) ==
    IF provider.name = None \/ provider.name = Some("")
    THEN provider.id
    ELSE provider.name[1]

BuildEnabledChatModelList_reversed(data) ==
    LET n == Len(data.enabledAiProviders)
    IN [i \in 1..n |->
          LET provider == data.enabledAiProviders[n + 1 - i]
          IN [children |-> getModelListByType(data, provider.id, "chat"),
              id |-> provider.id,
              name |-> NameOrId(provider)]]
BuildEnabledChatModelList(data) ==
    [i \in 1..Len(data.enabledAiProviders) |->
        LET provider == data.enabledAiProviders[i]
        IN [children |-> getModelListByType(data, provider.id, "chat"),
            id |-> provider.id,
            name |-> NameOrId(provider)]]


\* set({aiProviderRuntimeConfig, enabledAiModels, enabledAiProviders,
\*      enabledChatModelList}): one store update
SetRuntimeState_partial(data) ==
    /\ aiProviderRuntimeConfig' = Some(data.runtimeConfig)
    /\ enabledAiModels' = Some(data.enabledAiModels)
    /\ enabledAiProviders' = Some(data.enabledAiProviders)
    /\ enabledChatModelList' = enabledChatModelList
SetRuntimeState(data) ==
    /\ aiProviderRuntimeConfig' = Some(data.runtimeConfig)
    /\ enabledAiModels' = Some(data.enabledAiModels)
    /\ enabledAiProviders' = Some(data.enabledAiProviders)
    /\ enabledChatModelList' = Some(BuildEnabledChatModelList(data))

\* onSuccess of useFetchAiProviderRuntimeState; data is None or Some(snapshot)
RuntimeStateOnSuccess_clearsOnAbsent(data) ==
    IF data = None
    THEN /\ aiProviderRuntimeConfig' = None
         /\ enabledAiModels' = None
         /\ enabledAiProviders' = None
         /\ enabledChatModelList' = None
         /\ UNCHANGED rtSnapshot
    ELSE /\ SetRuntimeState(data[1])
         /\ rtSnapshot' = data
RuntimeStateOnSuccess(data) ==
    IF data = None
    THEN UNCHANGED runtimeVars
    ELSE /\ SetRuntimeState(data[1])
         /\ rtSnapshot' = data

\* onSuccess of useFetchAiProviderItem(id); data is None or Some(detail)
ItemOnSuccess_noGuard(id, data) ==
    /\ activeAiProvider' = Some(id)
    /\ aiProviderDetail' = data
ItemOnSuccess(id, data) ==
    IF data = None
    THEN UNCHANGED <<activeAiProvider, aiProviderDetail>>
    ELSE /\ activeAiProvider' = Some(id)
         /\ aiProviderDetail' = data

\* onSuccess of useFetchAiProviderList: both branches store the list, the
\* first one also raises initAiProviderList
ListOnSuccess(data) ==
    IF ~initAiProviderList
    THEN /\ aiProviderList' = data
         /\ initAiProviderList' = TRUE
    ELSE /\ aiProviderList' = data
         /\ UNCHANGED initAiProviderList

----------------------------------------------------------------------------
(* SWR keys and what the gateway can answer                                *)

fetchAiProviderItem == "FETCH_AI_PROVIDER_ITEM"
fetchAiProviderList == "FETCH_AI_PROVIDER"
fetchAiProviderRuntimeState == "FETCH_AI_PROVIDER_RUNTIME_STATE"

ItemKey(id) == <<fetchAiProviderItem, id>>
ListKey == <<fetchAiProviderList>>
RuntimeKey == <<fetchAiProviderRuntimeState>>

\* isLoginOnInit && !isDeprecatedEdition ? key : null
RuntimeKeyBound_loginOnly == isLoginOnInit
RuntimeKeyBound == isLoginOnInit /\ ~isDeprecatedEdition

ProviderIds == {"p1", "p2"}
\* identifiers a caller can pass, the empty string included
IdArgs == {""} \cup ProviderIds
\* create and delete only pass their identifier on to the gateway
CollectionIdArgs == {"", "p1"}

\* aiProviderService.getAiProviderList()
ListResponses == { <<[id |-> "p2", enabled |-> TRUE], [id |-> "p1", enabled |-> FALSE]>> }
\* aiProviderService.getAiProviderById(id)
ItemResponses(id) == { None, Some([id |-> id, keyVaults |-> "k"]) }
\* aiProviderService.getAiProviderRuntimeState()
SpecSnapshots ==
    { Snapshot("cfgA",
               <<[id |-> "p1", name |-> None], [id |-> "p2", name |-> Some("Azure")]>>,
               <<[id |-> "m1", providerId |-> "p1", type |-> "chat",
                  displayName |-> None, abilities |-> None, contextWindowTokens |-> None],
                 [id |-> "m1", providerId |-> "p1", type |-> "chat",
                  displayName |-> Some("GPT 3.5 Turbo"),
                  abilities |-> Some({"functionCall"}),
                  contextWindowTokens |-> Some(16385)]>>),
      Snapshot("cfgB",
               <<[id |-> "p2", name |-> Some("Azure")]>>,
               <<[id |-> "m1", providerId |-> "p2", type |-> "chat",
                  displayName |-> Some("GPT 3.5 Turbo"), abilities |-> None,
                  contextWindowTokens |-> Some(16385)]>>) }
RuntimeResponses == {None} \cup {Some(s) : s \in SpecSnapshots}

----------------------------------------------------------------------------
(* Mutations: each async function is the sequence of its statements.  A    *)
(* statement is a store update (loading), a gateway write or a mutate();   *)
(* await says whether the function suspends until the statement settles.   *)

\* the callers: each calls one mutation, in any order and overlapping
Callers == {"c1", "c2"}

Loading(loading) == [op |-> "loading", arg |-> loading, await |-> FALSE]
Gateway(method) == [op |-> "gateway", arg |-> method, await |-> TRUE]
Mutate(key) == [op |-> "mutate", arg |-> key, await |-> TRUE]
MutateDetached(key) == [op |-> "mutate", arg |-> key, await |-> FALSE]

\* internal_toggleAiProviderLoading(id, loading) applied to the id array
internal_toggleAiProviderLoading_clearsAll(ids, id, loading) ==
    IF loading
    THEN Append(ids, id)
    ELSE <<>>
internal_toggleAiProviderLoading(ids, id, loading) ==
    IF loading
    THEN Append(ids, id)
    ELSE SelectSeq(ids, LAMBDA i : i # id)

refreshAiProviderRuntimeState_noAwait ==
    <<MutateDetached(fetchAiProviderRuntimeState)>>
refreshAiProviderRuntimeState ==
    <<Mutate(fetchAiProviderRuntimeState)>>

refreshAiProviderDetail ==
    <<Mutate(fetchAiProviderItem)>> \o refreshAiProviderRuntimeState

refreshAiProviderList_noRuntime ==
    <<Mutate(fetchAiProviderList)>>
refreshAiProviderList_noList ==
    refreshAiProviderRuntimeState
refreshAiProviderList ==
    <<Mutate(fetchAiProviderList)>> \o refreshAiProviderRuntimeState

\* the key refreshAiProviderDetail passes to mutate(): get().activeAiProvider
\* read when the statement runs; the id of the running mutation is no part of it
DetailKey_ownId(active, id) == ItemKey(Some(id))
DetailKey(active, id) == ItemKey(active)

SwrKey(arg, active, id) ==
    IF arg = fetchAiProviderItem THEN DetailKey(active, id) ELSE <<arg>>

BoolStr(b) == IF b THEN "true" ELSE "false"

Event(ev, key) == [ev |-> ev, key |-> key]

\* Runs the statements of m.prog up to the first one that is awaited: m is
\* [prog, log, out, loading], the caller's remaining statements, its event
\* log, its unsettled mutate() calls (log positions) and the loading ids.
RECURSIVE Run(_, _, _, _)
Run(m, id, arg, active) ==
    IF m.prog = <<>> THEN m
    ELSE LET s == Head(m.prog)
             next ==
               CASE s.op = "loading" ->
                      [m EXCEPT !.loading =
                                  internal_toggleAiProviderLoading(@, id, s.arg),
                                !.log = Append(@, Event("loading", <<BoolStr(s.arg)>>))]
                 [] s.op = "gateway" ->
                      [m EXCEPT !.log = Append(@, Event("gateway", <<s.arg, id, arg>>))]
                 [] s.op = "mutate" ->
                      [m EXCEPT !.log = Append(@, Event("mutate", SwrKey(s.arg, active, id))),
                                !.out = @ \cup {Len(m.log) + 1}]
         IN IF s.await
            THEN next
            ELSE Run([next EXCEPT !.prog = Tail(@)], id, arg, active)

\* the awaited statement settled: a rejection leaves the function at once
\* (no try/catch/finally anywhere), a fulfilment runs the next statements
AwaitResult_swallow(m, ok, id, arg, active) ==
    LET s == Head(m.prog)
        settled == [m EXCEPT !.log = Append(@, Event(s.op \o (IF ok THEN "Ok" ELSE "Fail"),
                                                     m.log[Len(m.log)].key)),
                             !.out = @ \ {Len(m.log)},
                             !.prog = Tail(@)]
    IN Run(settled, id, arg, active)
AwaitResult(m, ok, id, arg, active) ==
    LET s == Head(m.prog)
        settled == [m EXCEPT !.log = Append(@, Event(s.op \o (IF ok THEN "Ok" ELSE "Fail"),
                                                     m.log[Len(m.log)].key)),
                             !.out = @ \ {Len(m.log)},
                             !.prog = Tail(@)]
    IN IF ok
       THEN Run(settled, id, arg, active)
       ELSE [settled EXCEPT !.prog = <<>>, !.rejected = TRUE]

\* the statements of each async function
createNewAiProviderBody_marksLoading ==
    <<Loading(TRUE), Gateway("createAiProvider")>>
    \o refreshAiProviderList
    \o <<Loading(FALSE)>>
createNewAiProviderBody ==
    <<Gateway("createAiProvider")>> \o refreshAiProviderList

deleteAiProviderBody ==
    <<Gateway("deleteAiProvider")>> \o refreshAiProviderList

removeAiProviderBody_noRefresh ==
    <<Gateway("deleteAiProvider")>>
removeAiProviderBody ==
    <<Gateway("deleteAiProvider")>> \o refreshAiProviderList

toggleProviderEnabledBody_noRefresh ==
    <<Loading(TRUE), Gateway("toggleProviderEnabled"), Loading(FALSE)>>
toggleProviderEnabledBody ==
    <<Loading(TRUE), Gateway("toggleProviderEnabled")>>
    \o refreshAiProviderList
    \o <<Loading(FALSE)>>

updateAiProviderBody_detailFirst ==
    <<Loading(TRUE), Gateway("updateAiProvider")>>
    \o refreshAiProviderDetail
    \o refreshAiProviderList
    \o <<Loading(FALSE)>>
updateAiProviderBody ==
    <<Loading(TRUE), Gateway("updateAiProvider")>>
    \o refreshAiProviderList
    \o refreshAiProviderDetail
    \o <<Loading(FALSE)>>

updateAiProviderConfigBody ==
    <<Loading(TRUE), Gateway("updateAiProviderConfig")>>
    \o refreshAiProviderDetail
    \o <<Loading(FALSE)>>

updateAiProviderSortBody ==
    <<Gateway("updateAiProviderOrder")>> \o refreshAiProviderList

Body(kind) ==
    CASE kind = "createNewAiProvider" -> createNewAiProviderBody
      [] kind = "deleteAiProvider" -> deleteAiProviderBody
      [] kind = "removeAiProvider" -> removeAiProviderBody
      [] kind = "toggleProviderEnabled" -> toggleProviderEnabledBody
      [] kind = "updateAiProvider" -> updateAiProviderBody
      [] kind = "updateAiProviderConfig" -> updateAiProviderConfigBody
      [] kind = "updateAiProviderSort" -> updateAiProviderSortBody

\* a call record keeps the number of statements it has left, pc
Machine(r) ==
    [prog |-> SubSeq(Body(r.kind), Len(Body(r.kind)) - r.pc + 1, Len(Body(r.kind))),
     log |-> r.log, out |-> r.out,
     loading |-> aiProviderLoadingIds, rejected |-> FALSE]

\* replaces the calls of the bag `old` by what Run / AwaitResult left of the
\* function, and stores the loading ids it set
Commit(old, kind, id, arg, m) ==
    /\ calls' = (calls (-) old) (+)
                SetToBag({[kind |-> kind, id |-> id, arg |-> arg,
                           status |-> IF m.rejected THEN "rejected"
                                      ELSE IF m.prog = <<>> THEN "resolved"
                                      ELSE "running",
                           pc |-> Len(m.prog), log |-> m.log, out |-> m.out]})
    /\ aiProviderLoadingIds' = m.loading

\* a caller calls the function `kind`
Invoke(kind, id, arg) ==
    /\ BagCardinality(calls) < Cardinality(Callers)
    /\ Commit(EmptyBag, kind, id, arg,
              Run([prog |-> Body(kind), log |-> <<>>, out |-> {},
                   loading |-> aiProviderLoadingIds, rejected |-> FALSE],
                  id, arg, activeAiProvider))

NoRead == UNCHANGED <<activeAiProvider, aiProviderDetail, aiProviderList,
                      initAiProviderList, runtimeVars, envVars>>

createNewAiProvider(id) ==
    /\ NoRead
    /\ Invoke("createNewAiProvider", id, "custom")

deleteAiProvider(id) ==
    /\ NoRead
    /\ Invoke("deleteAiProvider", id, "")

removeAiProvider(id) ==
    /\ NoRead
    /\ Invoke("removeAiProvider", id, "")

toggleProviderEnabled(id, enabled) ==
    /\ NoRead
    /\ Invoke("toggleProviderEnabled", id, BoolStr(enabled))

updateAiProvider(id) ==
    /\ NoRead
    /\ Invoke("updateAiProvider", id, "value")

updateAiProviderConfig(id) ==
    /\ NoRead
    /\ Invoke("updateAiProviderConfig", id, "value")

updateAiProviderSort ==
    /\ NoRead
    /\ Invoke("updateAiProviderSort", "", "items")

----------------------------------------------------------------------------
(* Settling of what a function awaits                                      *)

Awaits(r, op) ==
    /\ r.status = "running"
    /\ Body(r.kind)[Len(Body(r.kind)) - r.pc + 1].op = op

AwaitedKey(r) == r.log[Len(r.log)].key

Resume(r, ok, active) ==
    Commit(SetToBag({r}), r.kind, r.id, r.arg,
           AwaitResult(Machine(r), ok, r.id, r.arg, active))

\* the aiProviderService write a call awaits resolves or rejects
GatewaySettle(ok) ==
    \E r \in BagToSet(calls) :
        /\ Awaits(r, "gateway")
        /\ Resume(r, ok, activeAiProvider)
        /\ NoRead

\* mutate(FETCH_AI_PROVIDER) settles: the list is refetched, onSuccess runs
MutateListSettle(ok, data) ==
    \E r \in BagToSet(calls) :
        /\ Awaits(r, "mutate")
        /\ AwaitedKey(r) = ListKey
        /\ IF ok THEN ListOnSuccess(data)
                 ELSE UNCHANGED <<aiProviderList, initAiProviderList>>
        /\ Resume(r, ok, activeAiProvider)
        /\ UNCHANGED <<activeAiProvider, aiProviderDetail, runtimeVars, envVars>>

\* mutate([FETCH_AI_PROVIDER_ITEM, x]) settles.  A key no hook is bound to
\* (x undefined) has no fetcher: mutate resolves without a fetch.
MutateItemSettle(ok, data) ==
    \E r \in BagToSet(calls) :
        /\ Awaits(r, "mutate")
        /\ AwaitedKey(r)[1] = fetchAiProviderItem
        /\ LET x == AwaitedKey(r)[2]
           IN IF x = None
              THEN /\ ok
                   /\ data = None
                   /\ UNCHANGED <<activeAiProvider, aiProviderDetail>>
              ELSE /\ data \in ItemResponses(x[1])
                   /\ IF ok THEN ItemOnSuccess(x[1], data)
                            ELSE UNCHANGED <<activeAiProvider, aiProviderDetail>>
        /\ Resume(r, ok, activeAiProvider')
        /\ UNCHANGED <<aiProviderList, initAiProviderList, runtimeVars, envVars>>

\* mutate(FETCH_AI_PROVIDER_RUNTIME_STATE) settles.  With the hook's key null
\* no fetcher is bound: mutate resolves without a fetch.
MutateRuntimeSettle(ok, data) ==
    \E r \in BagToSet(calls) :
        /\ Awaits(r, "mutate")
        /\ AwaitedKey(r) = RuntimeKey
        /\ IF RuntimeKeyBound
           THEN IF ok THEN RuntimeStateOnSuccess(data) ELSE UNCHANGED runtimeVars
           ELSE /\ ok
                /\ data = None
                /\ UNCHANGED runtimeVars
        /\ Resume(r, ok, activeAiProvider)
        /\ UNCHANGED <<activeAiProvider, aiProviderDetail, aiProviderList,
                       initAiProviderList, envVars>>

----------------------------------------------------------------------------
(* Reads: a fetch started by a hook resolves and its onSuccess runs        *)

useFetchAiProviderItem(id, data) ==
    /\ ItemOnSuccess(id, data)
    /\ UNCHANGED <<aiProviderLoadingIds, aiProviderList, initAiProviderList,
                   runtimeVars, envVars, calls>>

useFetchAiProviderList(data) ==
    /\ ListOnSuccess(data)
    /\ UNCHANGED <<aiProviderLoadingIds, activeAiProvider, aiProviderDetail,
                   runtimeVars, envVars, calls>>

useFetchAiProviderRuntimeState(data) ==
    /\ RuntimeKeyBound
    /\ RuntimeStateOnSuccess(data)
    /\ UNCHANGED <<storeVars, envVars, calls>>

----------------------------------------------------------------------------
(* Cache store: the read-through cache behind useClientDataSWR.  A hook    *)
(* read of a key that is not fresh shares the fetch in flight for that key *)
(* or, with none in flight, issues the key's bound fetch.                  *)

Readers == 1..MaxReaders

\* a read is a hook call with its argument
Requests ==
    {[hook |-> "useFetchAiProviderItem", id |-> id] : id \in ProviderIds}
    \cup {[hook |-> "useFetchAiProviderList", id |-> ""],
          [hook |-> "useFetchAiProviderRuntimeState", id |-> ""]}

\* the key each hook passes to useClientDataSWR; None is the null key
HookKey_noId(hook, id) ==
    IF hook = "useFetchAiProviderItem" THEN Some(<<fetchAiProviderItem>>)
    ELSE IF hook = "useFetchAiProviderList" THEN Some(ListKey)
    ELSE IF RuntimeKeyBound THEN Some(RuntimeKey) ELSE None
HookKey(hook, id) ==
    IF hook = "useFetchAiProviderItem" THEN Some(ItemKey(Some(id)))
    ELSE IF hook = "useFetchAiProviderList" THEN Some(ListKey)
    ELSE IF RuntimeKeyBound THEN Some(RuntimeKey) ELSE None

\* the keys the hooks can pass
CacheKeys ==
    {ListKey, RuntimeKey}
    \cup {HookKey("useFetchAiProviderItem", id)[1] : id \in ProviderIds}

\* a key nobody has read
NoEntry ==
    [inflight |-> 0, issued |-> 0, settled |-> 0, fresh |-> FALSE,
     waiting |-> {}, owner |-> None]

Waiting(reader) ==
    \E k \in DOMAIN swr : \E w \in swr[k].waiting : w.reader = reader

\* read(key) of a key that is not fresh; a fresh key is returned as it is and
\* a null key is bound to no fetch
CacheRead(reader, q) ==
    LET key == HookKey(q.hook, q.id)
        w == [reader |-> reader, hook |-> q.hook, id |-> q.id]
    IN /\ key # None
       /\ ~Waiting(reader)
       /\ ~swr[key[1]].fresh
       /\ IF swr[key[1]].inflight > 0
          THEN swr' = [swr EXCEPT ![key[1]].waiting = @ \cup {w}]
          ELSE /\ swr[key[1]].issued < MaxFetches
               /\ swr' = [swr EXCEPT ![key[1]] =
                             [@ EXCEPT !.inflight = @ + 1, !.issued = @ + 1,
                                       !.waiting = {w}, !.owner = Some(q)]]
       /\ UNCHANGED <<storeVars, runtimeVars, isLoginOnInit, isDeprecatedEdition,
                      calls>>

\* the fetch in flight for a key settles: on success the value is fresh and
\* the onSuccess of the hook that issued the fetch runs; every reader
\* sharing the fetch gets its result
CacheFetchSettle(key, ok) ==
    /\ swr[key].inflight > 0
    /\ LET q == swr[key].owner[1]
       IN \/ /\ q.hook = "useFetchAiProviderItem"
             /\ \E data \in ItemResponses(q.id) :
                   IF ok THEN ItemOnSuccess(q.id, data)
                         ELSE UNCHANGED <<activeAiProvider, aiProviderDetail>>
             /\ UNCHANGED <<aiProviderList, initAiProviderList, runtimeVars>>
          \/ /\ q.hook = "useFetchAiProviderList"
             /\ \E data \in ListResponses :
                   IF ok THEN ListOnSuccess(data)
                         ELSE UNCHANGED <<aiProviderList, initAiProviderList>>
             /\ UNCHANGED <<activeAiProvider, aiProviderDetail, runtimeVars>>
          \/ /\ q.hook = "useFetchAiProviderRuntimeState"
             /\ \E data \in RuntimeResponses :
                   IF ok THEN RuntimeStateOnSuccess(data)
                         ELSE UNCHANGED runtimeVars
             /\ UNCHANGED <<activeAiProvider, aiProviderDetail, aiProviderList,
                            initAiProviderList>>
    /\ swr' = [swr EXCEPT ![key] =
                  [@ EXCEPT !.inflight = @ - 1, !.settled = @ + 1, !.fresh = ok,
                            !.waiting = {}, !.owner = None]]
    /\ UNCHANGED <<aiProviderLoadingIds, isLoginOnInit, isDeprecatedEdition, calls>>

----------------------------------------------------------------------------
(* Specification of the slice                                              *)

Init ==
    /\ aiProviderLoadingIds = <<>>
    /\ activeAiProvider = None
    /\ aiProviderDetail = None
    /\ aiProviderList = <<>>
    /\ initAiProviderList = FALSE
    /\ aiProviderRuntimeConfig = None
    /\ enabledAiModels = None
    /\ enabledAiProviders = None
    /\ enabledChatModelList = None
    /\ rtSnapshot = None
    /\ isLoginOnInit \in BOOLEAN
    /\ isDeprecatedEdition = FALSE    \* the regular edition
    /\ calls = EmptyBag
    /\ swr = [k \in CacheKeys |-> NoEntry]

Next ==
    \/ \E id \in CollectionIdArgs : createNewAiProvider(id)
    \/ \E id \in CollectionIdArgs : deleteAiProvider(id)
    \/ \E id \in CollectionIdArgs : removeAiProvider(id)
    \/ \E id \in IdArgs, enabled \in BOOLEAN : toggleProviderEnabled(id, enabled)
    \/ \E id \in IdArgs : updateAiProvider(id)
    \/ \E id \in IdArgs : updateAiProviderConfig(id)
    \/ updateAiProviderSort
    \/ \E ok \in BOOLEAN : GatewaySettle(ok)
    \/ \E ok \in BOOLEAN, data \in ListResponses : MutateListSettle(ok, data)
    \/ \E ok \in BOOLEAN, id \in ProviderIds :
          \E data \in ItemResponses(id) : MutateItemSettle(ok, data)
    \/ \E ok \in BOOLEAN, data \in RuntimeResponses : MutateRuntimeSettle(ok, data)
    \/ \E id \in ProviderIds :
          \E data \in ItemResponses(id) : useFetchAiProviderItem(id, data)
    \/ \E data \in ListResponses : useFetchAiProviderList(data)
    \/ \E data \in RuntimeResponses : useFetchAiProviderRuntimeState(data)

Spec == Init /\ [][Next]_vars


----------------------------------------------------------------------------
(* Specification of the derivation alone: the first runtime-state          *)
(* resolution, with every snapshot within MaxProviders and MaxModels       *)

ViewResponses == {None} \cup {Some(s) : s \in ViewSnapshots}

InitView ==
    /\ Init
    /\ RuntimeKeyBound

FirstRuntimeState ==
    /\ rtSnapshot = None
    /\ \E data \in ViewResponses : RuntimeStateOnSuccess(data)
    /\ UNCHANGED <<storeVars, envVars, calls>>

NextView == FirstRuntimeState

SpecView == InitView /\ [][NextView]_vars

----------------------------------------------------------------------------
(* Specification of the slice in either edition: as Spec, with the build   *)
(* flag isDeprecatedEdition set or not                                     *)

InitEditions ==
    /\ aiProviderLoadingIds = <<>>
    /\ activeAiProvider = None
    /\ aiProviderDetail = None
    /\ aiProviderList = <<>>
    /\ initAiProviderList = FALSE
    /\ aiProviderRuntimeConfig = None
    /\ enabledAiModels = None
    /\ enabledAiProviders = None
    /\ enabledChatModelList = None
    /\ rtSnapshot = None
    /\ isLoginOnInit \in BOOLEAN
    /\ isDeprecatedEdition \in BOOLEAN
    /\ calls = EmptyBag
    /\ swr = [k \in CacheKeys |-> NoEntry]

SpecEditions == InitEditions /\ [][Next]_vars

----------------------------------------------------------------------------
(* Specification of the cache store: hook reads by up to MaxReaders        *)
(* concurrent readers and the settling of the fetches they issue           *)

NextCache ==
    \/ \E reader \in Readers, q \in Requests : CacheRead(reader, q)
    \/ \E key \in CacheKeys, ok \in BOOLEAN : CacheFetchSettle(key, ok)

SpecCache == Init /\ [][NextCache]_vars

----------------------------------------------------------------------------
(* Properties                                                              *)

Range(s) == {s[i] : i \in 1..Len(s)}

PerIdKinds == {"toggleProviderEnabled", "updateAiProvider", "updateAiProviderConfig"}
IdKinds == PerIdKinds \cup {"createNewAiProvider", "deleteAiProvider", "removeAiProvider"}

Calls == BagToSet(calls)
Settled(r) == r.status \in {"resolved", "rejected"}
Logged(r, ev) == {i \in 1..Len(r.log) : r.log[i].ev = ev}
LoggedKey(r, ev, key) == {i \in Logged(r, ev) : r.log[i].key = key}
LoggedItem(r, ev) == {i \in Logged(r, ev) : r.log[i].key[1] = fetchAiProviderItem}

\* C1: once a per-id mutation has resolved or rejected, and it is the only
\* mutation on its identifier, the identifier is not in aiProviderLoadingIds
C1_NoLeakedLoadingFlag ==
    \A r \in Calls :
        ( /\ Settled(r)
          /\ r.kind \in PerIdKinds
          /\ CopiesIn(r, calls) = 1
          /\ \A b \in Calls \ {r} : b.id # r.id )
        => r.id \notin Range(aiProviderLoadingIds)

C3_RuntimeFollowsList ==
    \A r \in Calls :
        /\ \A i \in LoggedKey(r, "mutateOk", ListKey) :
              /\ i < Len(r.log)
              /\ r.log[i + 1] = Event("mutate", RuntimeKey)
        /\ \A i \in LoggedKey(r, "mutate", ListKey) :
              \A j \in LoggedKey(r, "mutate", RuntimeKey) :
                 i < j => \E k \in LoggedKey(r, "mutateOk", ListKey) : i < k /\ k < j
        /\ \A i \in r.out :
              r.log[i].key = RuntimeKey => \A j \in r.out : r.log[j].key # ListKey

C3_Witness ==
    \E r \in Calls :
        \E i \in LoggedKey(r, "mutateOk", ListKey) :
            /\ r.kind = "toggleProviderEnabled"
            /\ i + 1 \in LoggedKey(r, "mutate", RuntimeKey)

\* the call that takes the step under way, as it is after the step, and the
\* events it logs in that step
StepCalls == {r \in BagToSet(calls') : CopiesIn(r, calls') > CopiesIn(r, calls)}
NewEvents(r) ==
    LET before == {b \in Calls : CopiesIn(b, calls') < CopiesIn(b, calls)}
    IN {i \in 1..Len(r.log) : \A b \in before : i > Len(b.log)}

\* C4: a provider-detail invalidation is started by updateAiProvider and
\* updateAiProviderConfig alone, its key carries the activeAiProvider of that
\* moment whatever the id argument (so it carries the mutation's own id only
\* when that is the active one), and a resolved call of either kind has
\* invalidated and settled one
C4_DetailInvalidatesActive ==
    /\ [][\A r \in StepCalls : \A i \in NewEvents(r) :
            (r.log[i].ev = "mutate" /\ r.log[i].key[1] = fetchAiProviderItem) =>
                /\ r.kind \in {"updateAiProvider", "updateAiProviderConfig"}
                /\ r.log[i].key = <<fetchAiProviderItem, activeAiProvider>>
                /\ (r.log[i].key[2] = Some(r.id) => activeAiProvider = Some(r.id))]_vars
    /\ [](\A r \in Calls :
            ( /\ r.status = "resolved"
              /\ r.kind \in {"updateAiProvider", "updateAiProviderConfig"} )
            => LoggedItem(r, "mutateOk") # {})

C4_Witness ==
    \E r \in Calls :
        /\ r.kind = "updateAiProviderConfig"
        /\ r.id = "p1"
        /\ r.status = "resolved"
        /\ LoggedKey(r, "mutateOk", ItemKey(Some("p2"))) # {}

\* C5: a mutation called with the empty identifier issues no gateway write,
\* invalidates nothing and leaves aiProviderLoadingIds alone
C5_EmptyIdRejected ==
    \A r \in Calls :
        (r.kind \in IdKinds /\ r.id = "") =>
            /\ Logged(r, "gateway") = {}
            /\ Logged(r, "mutate") = {}
            /\ Logged(r, "loading") = {}
            /\ "" \notin Range(aiProviderLoadingIds)

\* C6: a failed gateway write is the last thing its call does: the call is
\* rejected, it has invalidated nothing and it issued the write once; a call
\* that resolved had its write succeed
C6_GatewayFailureAborts ==
    \A r \in Calls :
        /\ Logged(r, "gatewayFail") # {} =>
              /\ r.status = "rejected"
              /\ Logged(r, "mutate") = {}
              /\ Cardinality(Logged(r, "gateway")) = 1
              /\ r.log[Len(r.log)].ev = "gatewayFail"
        /\ r.status = "resolved" =>
              /\ Logged(r, "gatewayFail") = {}
              /\ Cardinality(Logged(r, "gatewayOk")) = 1

C6_Witness ==
    \E r \in Calls :
        /\ r.kind = "updateAiProvider"
        /\ Logged(r, "gatewayFail") # {}

\* C7: when a mutation call has resolved, every invalidation it started has
\* settled
C7_ResolvesAfterCascade ==
    \A r \in Calls :
        r.status = "resolved" =>
            /\ r.out = {}
            /\ Cardinality(Logged(r, "mutate")) = Cardinality(Logged(r, "mutateOk"))
            /\ Logged(r, "mutate") # {}

C7_Witness ==
    \E r \in Calls :
        /\ r.kind = "updateAiProvider"
        /\ r.status = "resolved"
        /\ Cardinality(Logged(r, "mutateOk")) = 4

\* the published tree and the snapshot it was published from
Tree == enabledChatModelList[1]
SnapProviders == rtSnapshot[1].enabledAiProviders
SnapModels == rtSnapshot[1].enabledAiModels
SnapProviderIds == {SnapProviders[i].id : i \in 1..Len(SnapProviders)}

\* C8 as claimed: the tree has exactly one node per distinct identifier of
\* enabledAiProviders, in the order of their first occurrence, named by the
\* provider's name or, with the name absent (undefined or empty), by its
\* identifier
C8_OneNodePerDistinctProvider ==
    rtSnapshot # None =>
        /\ \A id \in SnapProviderIds :
              Cardinality({i \in 1..Len(Tree) : Tree[i].id = id}) = 1
        /\ \A i \in 1..Len(Tree) : Tree[i].id \in SnapProviderIds
        /\ \A i, j \in 1..Len(Tree) :
              i < j =>
                 \E k \in 1..Len(SnapProviders) :
                    /\ SnapProviders[k].id = Tree[i].id
                    /\ \A l \in 1..Len(SnapProviders) :
                          SnapProviders[l].id = Tree[j].id => k < l
        /\ \A i \in 1..Len(Tree) :
              \E k \in 1..Len(SnapProviders) :
                 /\ SnapProviders[k].id = Tree[i].id
                 /\ Tree[i].name = IF SnapProviders[k].name \in {None, Some("")}
                                   THEN SnapProviders[k].id
                                   ELSE SnapProviders[k].name[1]

\* C8 amended: the tree has one node per entry of enabledAiProviders, in that
\* order (an identifier listed twice gets two nodes, a provider without chat
\* model gets a node), named by the provider's name or, with the name absent
\* (undefined or empty), by its identifier; with the identifiers distinct that
\* is exactly one node per identifier
C8_OneNodePerProviderEntry ==
    rtSnapshot # None =>
        /\ Len(Tree) = Len(SnapProviders)
        /\ \A i \in 1..Len(Tree) :
              /\ Tree[i].id = SnapProviders[i].id
              /\ Tree[i].name = IF SnapProviders[i].name \in {None, Some("")}
                                THEN SnapProviders[i].id
                                ELSE SnapProviders[i].name[1]
        /\ (\A i, j \in 1..Len(SnapProviders) :
               SnapProviders[i].id = SnapProviders[j].id => i = j)
           => \A id \in SnapProviderIds :
                 Cardinality({i \in 1..Len(Tree) : Tree[i].id = id}) = 1

C8_Witness ==
    /\ rtSnapshot # None
    /\ Len(SnapProviders) = 2
    /\ SnapProviders[1].id = "p2" /\ SnapProviders[2].id = "p1"
    /\ SnapProviders[2].name = None
    /\ SnapModels = <<>>
    /\ Len(Tree) = 2

\* the positions of the enabled chat models of provider p, and those among
\* them that are the first with their id
ChatModelsOf(p) ==
    {j \in 1..Len(SnapModels) :
        SnapModels[j].providerId = p /\ SnapModels[j].type = "chat"}
FirstChatModelsOf(p) ==
    {j \in ChatModelsOf(p) :
        \A k \in ChatModelsOf(p) : k < j => SnapModels[k].id # SnapModels[j].id}
\* the n-th position of a set of positions
Nth(S, n) == CHOOSE j \in S : Cardinality({k \in S : k < j}) = n - 1

\* C9: the children of the node of provider p are the enabled models with
\* providerId p and type "chat", the first of each id, in their order; no two
\* children share an id; a model of a provider that is not enabled is under no
\* node
C9_ChildrenAreDedupedChatModels ==
    rtSnapshot # None =>
        \A i \in 1..Len(Tree) :
            LET kids == Tree[i].children
                first == FirstChatModelsOf(Tree[i].id)
            IN /\ Tree[i].id \in SnapProviderIds
               /\ Len(kids) = Cardinality(first)
               /\ \A n \in 1..Len(kids) :
                     LET model == SnapModels[Nth(first, n)]
                     IN /\ kids[n].id = model.id
                        /\ kids[n].contextWindowTokens = model.contextWindowTokens
                        /\ kids[n].displayName =
                              IF model.displayName = None THEN "" ELSE model.displayName[1]
                        /\ kids[n].abilities =
                              IF model.abilities = None THEN {} ELSE model.abilities[1]
               /\ \A n, k \in 1..Len(kids) : kids[n].id = kids[k].id => n = k

C9_Witness ==
    /\ rtSnapshot # None
    /\ Len(SnapModels) = 3
    /\ SnapModels[1].id = "m1" /\ SnapModels[1].providerId = "p1"
    /\ SnapModels[1].displayName = None
    /\ SnapModels[2].providerId = "p3"
    /\ SnapModels[3].id = "m1" /\ SnapModels[3].providerId = "p1"
    /\ SnapModels[3].displayName # None
    /\ Len(Tree) = 1
    /\ Tree[1].id = "p1"
    /\ Len(Tree[1].children) = 1

\* C10: the four runtime fields are those of one snapshot, the last defined one
\* that resolved, and all are absent before the first: enabledChatModelList is
\* the tree of the stored enabledAiProviders and enabledAiModels
C10_FourFieldsOneSnapshot ==
    IF rtSnapshot = None
    THEN /\ aiProviderRuntimeConfig = None
         /\ enabledAiProviders = None
         /\ enabledAiModels = None
         /\ enabledChatModelList = None
    ELSE /\ aiProviderRuntimeConfig = Some(rtSnapshot[1].runtimeConfig)
         /\ enabledAiProviders = Some(SnapProviders)
         /\ enabledAiModels = Some(SnapModels)
         /\ enabledChatModelList # None
         /\ C8_OneNodePerProviderEntry
         /\ C9_ChildrenAreDedupedChatModels

C10_Witness ==
    /\ rtSnapshot # None
    /\ rtSnapshot[1].runtimeConfig = "cfgB"
    /\ \E r \in Calls :
          /\ r.status = "resolved"
          /\ LoggedKey(r, "mutateOk", RuntimeKey) # {}

\* the four fields a runtime-state resolution publishes
runtimeFields == <<aiProviderRuntimeConfig, enabledAiModels, enabledAiProviders,
                   enabledChatModelList>>

\* C11: a step in which the runtime-state entry resolves with an absent value,
\* for a hook read or for the refetch a mutation awaits, changes none of
\* aiProviderRuntimeConfig, enabledAiProviders, enabledAiModels and
\* enabledChatModelList; more generally the four fields change in no step
\* that delivers no defined snapshot
C11_AbsentRuntimeStateSetsNothing ==
    /\ [][(useFetchAiProviderRuntimeState(None) \/ MutateRuntimeSettle(TRUE, None))
            => UNCHANGED runtimeFields]_vars
    /\ [][rtSnapshot' = rtSnapshot => UNCHANGED runtimeFields]_vars

\* the runtime key is bound, the refetch a mutation awaited has resolved, and
\* no defined snapshot has ever resolved: the resolution was an absent one
C11_Witness ==
    /\ isLoginOnInit /\ ~isDeprecatedEdition
    /\ rtSnapshot = None
    /\ enabledChatModelList = None
    /\ \E r \in Calls : LoggedKey(r, "mutateOk", RuntimeKey) # {}

\* the key of a request, kind and discriminator
StructuralKey(q) ==
    IF q.hook = "useFetchAiProviderItem" THEN <<fetchAiProviderItem, Some(q.id)>>
    ELSE IF q.hook = "useFetchAiProviderList" THEN <<fetchAiProviderList>>
    ELSE <<fetchAiProviderRuntimeState>>
WaitingFor(q) ==
    UNION {{w \in swr[k].waiting : w.hook = q.hook /\ w.id = q.id} : k \in DOMAIN swr}

\* C12: no key ever has more than one fetch in flight; the readers of a
\* request (provider list, provider detail of id X, runtime state) that wait
\* for it all wait on the one fetch in flight for its own key, which they
\* share with no reader of another request; for a key that never settled
\* exactly one fetch was issued however many readers wait; a null key gets no
\* fetch
C12_ReadersShareOneFetch ==
    /\ \A k \in DOMAIN swr :
          /\ swr[k].inflight <= 1
          /\ swr[k].issued = swr[k].settled + swr[k].inflight
          /\ swr[k].waiting # {} => swr[k].inflight = 1
    /\ \A q \in Requests :
          WaitingFor(q) # {} =>
             /\ StructuralKey(q) \in DOMAIN swr
             /\ swr[StructuralKey(q)].waiting = WaitingFor(q)
             /\ swr[StructuralKey(q)].inflight = 1
             /\ swr[StructuralKey(q)].settled = 0 => swr[StructuralKey(q)].issued = 1
    /\ ~(isLoginOnInit /\ ~isDeprecatedEdition) => swr[RuntimeKey].issued = 0

\* every reader waits: two on the detail of p1 and one on the detail of p2,
\* each key uncached and with one fetch issued
C12_Witness ==
    LET k1 == StructuralKey([hook |-> "useFetchAiProviderItem", id |-> "p1"])
        k2 == StructuralKey([hook |-> "useFetchAiProviderItem", id |-> "p2"])
    IN /\ k1 \in DOMAIN swr /\ k2 \in DOMAIN swr
       /\ Cardinality(swr[k1].waiting) >= 2
       /\ Cardinality(swr[k2].waiting) >= 1
       /\ swr[k1].settled = 0 /\ swr[k1].issued = 1
       /\ swr[k2].settled = 0 /\ swr[k2].issued = 1

ToggleP1Off(r) ==
    r.kind = "toggleProviderEnabled" /\ r.id = "p1" /\ r.arg = "false"
HasNode(tree, id) == \E i \in 1..Len(tree) : tree[i].id = id
\* a defined snapshot whose enabledAiProviders does not list id
NotListing(data, id) ==
    /\ data # None
    /\ \A i \in 1..Len(data[1].enabledAiProviders) :
          data[1].enabledAiProviders[i].id # id

\* C13: a toggleProviderEnabled("p1", false) that resolved has, in this
\* order, set the flag, had its gateway write succeed, invalidated the list
\* entry, then the runtime-state entry, and cleared the flag; with the
\* runtime-state key bound, when its runtime-state refetch delivers a snapshot
\* that does not list p1 the call resolves in a state whose
\* enabledChatModelList has no node with id "p1"
C13_ToggleOffRemovesNode ==
    /\ [](\A r \in Calls :
            (ToggleP1Off(r) /\ r.status = "resolved") =>
                r.log = << Event("loading", <<"true">>),
                           Event("gateway", <<"toggleProviderEnabled", "p1", "false">>),
                           Event("gatewayOk", <<"toggleProviderEnabled", "p1", "false">>),
                           Event("mutate", ListKey),
                           Event("mutateOk", ListKey),
                           Event("mutate", RuntimeKey),
                           Event("mutateOk", RuntimeKey),
                           Event("loading", <<"false">>) >>)
    /\ [][\A r \in StepCalls :
            ( /\ ToggleP1Off(r)
              /\ r.status = "resolved"
              /\ isLoginOnInit /\ ~isDeprecatedEdition
              /\ \E data \in RuntimeResponses :
                    NotListing(data, "p1") /\ MutateRuntimeSettle(TRUE, data) )
            => /\ enabledChatModelList' # None
               /\ ~HasNode(enabledChatModelList'[1], "p1")]_vars

C13_Witness ==
    /\ isLoginOnInit /\ ~isDeprecatedEdition
    /\ \E r \in Calls : ToggleP1Off(r) /\ r.status = "resolved"
    /\ rtSnapshot # None
    /\ NotListing(rtSnapshot, "p1")
    /\ enabledChatModelList # None
    /\ HasNode(Tree, "p2") /\ ~HasNode(Tree, "p1")

\* C14: in every mutation call no invalidation starts before the gateway
\* write has succeeded, and the list invalidation, where there is one, has
\* settled before any other invalidation of the call starts (so before the
\* detail invalidation); a per-id mutation sets the flag first and calls the
\* gateway next, and clears the flag only as its last step, after every
\* invalidation it started has settled
C14_FixedStepOrder ==
    \A r \in Calls :
        /\ \A i \in Logged(r, "mutate") : \E g \in Logged(r, "gatewayOk") : g < i
        /\ \A i \in LoggedKey(r, "mutate", ListKey) :
              \A j \in Logged(r, "mutate") \ {i} :
                 /\ i < j
                 /\ \E k \in LoggedKey(r, "mutateOk", ListKey) : i < k /\ k < j
        /\ r.kind \in PerIdKinds =>
              /\ r.log[1] = Event("loading", <<"true">>)
              /\ \A g \in Logged(r, "gateway") : g = 2
              /\ \A c \in LoggedKey(r, "loading", <<"false">>) :
                    /\ c = Len(r.log)
                    /\ r.status = "resolved"
                    /\ r.out = {}
                    /\ Logged(r, "mutate") # {}
                    /\ \A i \in Logged(r, "mutate") :
                          i + 1 \in Logged(r, "mutateOk") /\ i + 1 < c
              /\ r.status = "resolved" => LoggedKey(r, "loading", <<"false">>) # {}

C14_Witness ==
    \E r \in Calls :
        /\ r.kind = "updateAiProvider"
        /\ r.status = "resolved"
        /\ Len(r.log) = 12
        /\ r.log[Len(r.log)] = Event("loading", <<"false">>)
        /\ LoggedItem(r, "mutate") # {}

Occurrences(ids, id) == Cardinality({i \in 1..Len(ids) : ids[i] = id})
\* r is the only mutation called on its identifier
OnlyCallOn(r) ==
    /\ CopiesIn(r, calls) = 1
    /\ \A b \in Calls \ {r} : b.kind \in PerIdKinds => b.id # r.id

\* C15: with per-id mutations on different identifiers interleaved in any
\* way, the identifier of a mutation is in aiProviderLoadingIds, once, from
\* the start of the mutation up to the step in which that mutation clears it,
\* whatever the mutation on the other identifier sets or clears meanwhile
C15_OtherIdsFlagUntouched ==
    \A r \in Calls :
        (r.kind \in PerIdKinds /\ OnlyCallOn(r)) =>
            Occurrences(aiProviderLoadingIds, r.id) =
                IF LoggedKey(r, "loading", <<"false">>) = {} THEN 1 ELSE 0

\* the mutation on p2 has cleared its flag while the one on p1, started
\* after it, still runs with its flag set
C15_Witness ==
    \E a, b \in Calls :
        /\ a.kind = "updateAiProviderConfig" /\ a.id = "p1" /\ a.status = "running"
        /\ Logged(a, "mutate") # {}
        /\ b.kind = "toggleProviderEnabled" /\ b.id = "p2" /\ b.status = "resolved"
        /\ aiProviderLoadingIds = <<"p1">>

\* C16: aiProviderLoadingIds changes only in a step of updateAiProvider,
\* updateAiProviderConfig or toggleProviderEnabled in which that call sets or
\* clears its flag; createNewAiProvider, deleteAiProvider, removeAiProvider
\* and updateAiProviderSort never set or clear one, whether they resolve or
\* reject
C16_CollectionKindsLeaveFlags ==
    /\ [](\A r \in Calls : r.kind \notin PerIdKinds => Logged(r, "loading") = {})
    /\ [][aiProviderLoadingIds' # aiProviderLoadingIds =>
            \E r \in StepCalls :
                /\ r.kind \in PerIdKinds
                /\ \E i \in NewEvents(r) : r.log[i].ev = "loading"]_vars

\* a delete has resolved and a sort was rejected in its cascade: no flag is set
C16_Witness ==
    \E r, q \in Calls :
        /\ r.kind = "deleteAiProvider" /\ r.status = "resolved"
        /\ q.kind = "updateAiProviderSort" /\ q.status = "rejected"
        /\ Logged(q, "mutateFail") # {}
        /\ aiProviderLoadingIds = <<>>

\* C17: activeAiProvider and aiProviderDetail change only together, in a
\* step in which the fetch of the detail of an identifier X resolves with a
\* defined value (a hook read, or the refetch of the invalidated detail key
\* of X), to X and that value; a detail read that resolves absent changes
\* neither, and no statement of a mutation function changes them
C17_ActiveSetByDetailRead ==
    [][ /\ (activeAiProvider' # activeAiProvider \/ aiProviderDetail' # aiProviderDetail)
           => /\ activeAiProvider' # None
              /\ aiProviderDetail' # None
              /\ aiProviderDetail'[1].id = activeAiProvider'[1]
              /\ \/ calls' = calls
                 \/ \E r \in StepCalls : \E i \in NewEvents(r) :
                       r.log[i] = Event("mutateOk", ItemKey(activeAiProvider'))
        /\ (\E id \in ProviderIds : useFetchAiProviderItem(id, None))
           => UNCHANGED <<activeAiProvider, aiProviderDetail>>
      ]_vars

\* updateAiProvider("p1") has resolved and the active provider is p2, the one
\* whose detail was read
C17_Witness ==
    /\ activeAiProvider = Some("p2")
    /\ aiProviderDetail # None
    /\ aiProviderDetail[1].id = "p2"
    /\ \E r \in Calls :
          /\ r.kind = "updateAiProvider" /\ r.id = "p1" /\ r.status = "resolved"

\* C18: unless isLoginOnInit is true and the edition is not deprecated, no
\* runtime-state snapshot is ever delivered, neither to the hook nor to a
\* mutation that invalidates the runtime-state key (whose invalidation
\* resolves all the same), and aiProviderRuntimeConfig, enabledAiProviders,
\* enabledAiModels and enabledChatModelList keep their initial values
C18_UnboundRuntimeKeySkipsFetch ==
    ~(isLoginOnInit /\ ~isDeprecatedEdition) =>
        /\ rtSnapshot = None
        /\ aiProviderRuntimeConfig = None
        /\ enabledAiProviders = None
        /\ enabledAiModels = None
        /\ enabledChatModelList = None
        /\ \A r \in Calls :
              \A i \in LoggedKey(r, "mutate", RuntimeKey) :
                 i < Len(r.log) => r.log[i + 1] = Event("mutateOk", RuntimeKey)

\* logged in, deprecated edition: a toggle has resolved, its runtime-state
\* invalidation included, and nothing was published
C18_Witness ==
    /\ isLoginOnInit /\ isDeprecatedEdition
    /\ enabledChatModelList = None
    /\ \E r \in Calls :
          /\ r.kind = "toggleProviderEnabled"
          /\ r.status = "resolved"
          /\ LoggedKey(r, "mutateOk", RuntimeKey) # {}

\* C19: every identifier occurs at most once in aiProviderLoadingIds, and the
\* identifier of a per-id mutation that has set its flag and still runs is in
\* aiProviderLoadingIds, also when another mutation on the same identifier
\* overlaps with it
C19_LoadingIdsIsASet ==
    /\ \A id \in IdArgs : Occurrences(aiProviderLoadingIds, id) <= 1
    /\ \A r \in Calls :
          (r.kind \in PerIdKinds /\ r.status = "running") =>
              r.id \in Range(aiProviderLoadingIds)

IsPrefix(s, t) == Len(s) <= Len(t) /\ SubSeq(t, 1, Len(s)) = s
\* the first position at which two logs differ is the outcome of a settle
DivergeAtOutcome(s, t) ==
    \E i \in 1..Len(s) :
        /\ i <= Len(t)
        /\ SubSeq(s, 1, i - 1) = SubSeq(t, 1, i - 1)
        /\ s[i].key = t[i].key
        /\ {s[i].ev, t[i].ev} \in {{"gatewayOk", "gatewayFail"}, {"mutateOk", "mutateFail"}}

\* C20: a removeAiProvider(id) and a deleteAiProvider(id) do the same: both
\* issue the gateway write deleteAiProvider(id) first, and as long as the
\* gateway and the refetches answer them alike one call's log of gateway
\* write, invalidations and outcomes is a prefix of the other's; with equal
\* logs they are in the same position with the same resolve/reject status,
\* and neither has settled where the other still has a step to take
C20_RemoveIsDelete ==
    \A r, d \in Calls :
        (r.kind = "removeAiProvider" /\ d.kind = "deleteAiProvider" /\ r.id = d.id) =>
            /\ r.log[1] = Event("gateway", <<"deleteAiProvider", r.id, "">>)
            /\ r.log[1] = d.log[1]
            /\ \/ DivergeAtOutcome(r.log, d.log)
               \/ /\ IsPrefix(r.log, d.log) \/ IsPrefix(d.log, r.log)
                  /\ Len(r.log) < Len(d.log) => r.status = "running"
                  /\ Len(d.log) < Len(r.log) => d.status = "running"
                  /\ r.log = d.log =>
                        /\ r.status = d.status
                        /\ r.pc = d.pc
                        /\ r.out = d.out
            /\ \A c \in {r, d} :
                  /\ c.status = "resolved" =>
                        <<c.log[3], c.log[5]>> =
                            <<Event("mutate", ListKey), Event("mutate", RuntimeKey)>>
                  /\ Logged(c, "loading") = {}

\* both have resolved after the same cascade
C20_Witness ==
    \E r, d \in Calls :
        /\ r.kind = "removeAiProvider" /\ d.kind = "deleteAiProvider"
        /\ r.id = "p1" /\ d.id = "p1"
        /\ r.status = "resolved" /\ d.status = "resolved"
        /\ r.log = d.log
        /\ Len(r.log) = 6

====
